---- MODULE Spec2Model ----
(***************************************************************************)
(* Duplicate-enrollment removal (core/management/commands):                *)
(*   remove_duplicacy.py          ranges_overlap_or_adjacent,              *)
(*                                find_overlapping_groups,                 *)
(*                                select_best_enrollment,                  *)
(*                                remove_duplicate_group, handle           *)
(*                                                                         *)
(* Dates and timestamps are integers (day numbers / instants); adding      *)
(* timedelta(days=1) is +1.  An optional value is a sequence: None is <<>> *)
(* and a present value v is <<v>>.  start_date is required (a date).       *)
(***************************************************************************)
EXTENDS Integers, Sequences, FiniteSets

VARIABLES
    args,   \* the arguments of the pure function under call
    ret,    \* <<>> before the call, <<value>> once it has returned
    table,  \* the enrollment rows the database held before the first run
    db,     \* the ids of the rows the database holds (committed)
    txn,    \* the open transaction.atomic() block of handle
    hnd,    \* the frame of handle: options, loop positions, accumulators
    rdg,    \* the frame of remove_duplicate_group
    prev,   \* <<>>, or <<the frame of the previous run of handle>>
    faults  \* the number of collaborator failures so far

pure_vars == <<args, ret>>
handle_vars == <<table, db, txn, hnd, rdg, prev, faults>>
vars == <<args, ret, table, db, txn, hnd, rdg, prev, faults>>

\* No run of handle: the state of the command variables in the
\* specifications of the pure functions.
NoTxn == [open |-> FALSE, deleted |-> {}, broken |-> FALSE]
NoFrame == [pc |-> "none"]
HandleIdle ==
    /\ table = <<>> /\ db = {} /\ txn = NoTxn /\ hnd = NoFrame /\ rdg = NoFrame
    /\ prev = <<>> /\ faults = 0

\* ------------------------------------------------------------------ bounds
\* Dates range over 0..MaxDate.
MaxDate == 2
\* find_overlapping_groups is called on lists of at most MaxRecs records.
MaxRecs == 3

\* ------------------------------------------------------------------ values
None == <<>>
Some(v) == <<v>>
\* Python truthiness of an Optional[date]: a date is always truthy.
Truthy(opt) == opt # None

Dates == 0..MaxDate
OptDates == {None} \cup {Some(d) : d \in Dates}

\* ------------------------------------------- ranges_overlap_or_adjacent
\* Mutant: the second open-ended branch compares strictly and forgets the
\* end of the closed range.
ranges_overlap_or_adjacent_strict(start1, end1, start2, end2) ==
    IF end1 = None /\ end2 = None THEN TRUE
    ELSE IF end1 = None
        THEN start2 >= start1 \/ (Truthy(end2) /\ end2[1] >= start1)
    ELSE IF end2 = None
        THEN start1 > start2
    ELSE (start1 <= end2[1] /\ start2 <= end1[1])
         \/ (Truthy(end1) /\ end1[1] + 1 = start2)
         \/ (Truthy(end2) /\ end2[1] + 1 = start1)

\* Mutant: touching ranges are not adjacent (the + 1 day is lost).
ranges_overlap_or_adjacent_noadj(start1, end1, start2, end2) ==
    IF end1 = None /\ end2 = None THEN TRUE
    ELSE IF end1 = None
        THEN start2 >= start1 \/ (Truthy(end2) /\ end2[1] >= start1)
    ELSE IF end2 = None
        THEN start1 >= start2 \/ (Truthy(end1) /\ end1[1] >= start2)
    ELSE (start1 <= end2[1] /\ start2 <= end1[1])

ranges_overlap_or_adjacent(start1, end1, start2, end2) ==
    IF end1 = None /\ end2 = None THEN TRUE
    ELSE IF end1 = None
        THEN start2 >= start1 \/ (Truthy(end2) /\ end2[1] >= start1)
    ELSE IF end2 = None
        THEN start1 >= start2 \/ (Truthy(end1) /\ end1[1] >= start2)
    ELSE LET overlap == start1 <= end2[1] /\ start2 <= end1[1]
             adjacent == (Truthy(end1) /\ end1[1] + 1 = start2)
                         \/ (Truthy(end2) /\ end2[1] + 1 = start1)
         IN  overlap \/ adjacent

\* The predicate on two records.
Conflict(a, b) ==
    ranges_overlap_or_adjacent(a.start_date, a.end_date, b.start_date, b.end_date)

\* ------------------------------------------------ specification SpecOverlap
\* One call of ranges_overlap_or_adjacent on any four arguments.
OverlapArgs == [start1 : Dates, end1 : OptDates, start2 : Dates, end2 : OptDates]

InitOverlap ==
    /\ args \in OverlapArgs
    /\ ret = <<>>
    /\ HandleIdle

CallOverlap ==
    /\ ret = <<>>
    /\ ret' = <<ranges_overlap_or_adjacent(args.start1, args.end1,
                                           args.start2, args.end2)>>
    /\ UNCHANGED <<args, handle_vars>>

NextOverlap == CallOverlap

SpecOverlap == InitOverlap /\ [][NextOverlap]_vars

\* ------------------------------------------------------ claims on SpecOverlap
Returned == ret # <<>>

\* C6: symmetry: the call returns the same truth value as the call with the
\* two ranges exchanged, for all starts and all ends (None included).
C6_Symmetric ==
    Returned =>
        ret[1] = ranges_overlap_or_adjacent(args.start2, args.end2,
                                            args.start1, args.end1)

\* C6 witness: a closed range against an open-ended one has been decided as
\* conflicting (the branches that differ between the two argument orders).
C6_Witness ==
    /\ Returned
    /\ args.end1 # None /\ args.end2 = None
    /\ args.start1 < args.start2
    /\ ret[1] = TRUE

\* The three rules of overlapsOrAdjacent as the specification words them
\* (section 4.1), a the open-ended range of rule 2.
OpenRule(a, b) ==
    b.start >= a.start \/ (b.end # None /\ b.end[1] >= a.start)

overlapsOrAdjacent(a, b) ==
    IF a.end = None /\ b.end = None THEN TRUE
    ELSE IF a.end = None THEN OpenRule(a, b)
    ELSE IF b.end = None THEN OpenRule(b, a)
    ELSE (a.start <= b.end[1] /\ b.start <= a.end[1])
         \/ a.end[1] + 1 = b.start
         \/ b.end[1] + 1 = a.start

\* C7: the call returns exactly the value of the three rules applied in
\* order: both open; exactly one open; both closed (overlap or adjacent).
C7_ThreeRules ==
    Returned =>
        ret[1] = overlapsOrAdjacent([start |-> args.start1, end |-> args.end1],
                                    [start |-> args.start2, end |-> args.end2])

\* C7 witness: two closed ranges that do not overlap but touch (rule 3's
\* adjacency alone) have been decided as conflicting.
C7_Witness ==
    /\ Returned
    /\ args.end1 # None /\ args.end2 # None
    /\ args.start1 <= args.end1[1] /\ args.start2 <= args.end2[1]
    /\ args.end1[1] + 1 = args.start2
    /\ ret[1] = TRUE

\* A range whose end, when set, is not before its start.
WellFormed(start, end) == end = None \/ start <= end[1]

\* C8: adjacency is continuity for every pair of (well-formed) ranges: a
\* range that ends exactly one day before the other starts conflicts with
\* it, the later range closed or open-ended; two closed ranges with a gap of
\* more than one day do not conflict.
C8_AdjacencyIsContinuity ==
    (Returned /\ WellFormed(args.start1, args.end1)
              /\ WellFormed(args.start2, args.end2)) =>
        /\ (args.end1 # None /\ args.end1[1] + 1 = args.start2) => ret[1]
        /\ (args.end2 # None /\ args.end2[1] + 1 = args.start1) => ret[1]
        /\ (args.end1 # None /\ args.end2 # None
            /\ (args.end1[1] + 1 < args.start2 \/ args.end2[1] + 1 < args.start1))
           => ~ret[1]

\* The part of C8 the code does satisfy: the same, the later range closed.
C8_ClosedAdjacency ==
    (Returned /\ WellFormed(args.start1, args.end1)
              /\ WellFormed(args.start2, args.end2)
              /\ args.end1 # None /\ args.end2 # None) =>
        /\ (args.end1[1] + 1 = args.start2) => ret[1]
        /\ (args.end2[1] + 1 = args.start1) => ret[1]
        /\ (args.end1[1] + 1 < args.start2 \/ args.end2[1] + 1 < args.start1)
           => ~ret[1]

\* ------------------------------------------------- find_overlapping_groups
\* Mutant: the list is left in the order it has.
sorted_by_start_unsorted(enrollments) == enrollments

\* sorted(enrollments, key=start_date): Python's sort is stable, so records
\* with equal start dates keep their input order.
RECURSIVE sorted_by_start(_)
sorted_by_start(enrollments) ==
    IF enrollments = <<>> THEN <<>>
    ELSE LET n    == Len(enrollments)
             e    == enrollments[n]
             rest == sorted_by_start(SubSeq(enrollments, 1, n - 1))
             p    == Cardinality({i \in 1..Len(rest) :
                                    rest[i].start_date <= e.start_date})
         IN  SubSeq(rest, 1, p) \o <<e>> \o SubSeq(rest, p + 1, Len(rest))

\* Mutant: the outer loop never skips a record that is already in a group.
already_processed_never(enrollment, processed) == FALSE

\* "if enrollment.id in processed: continue" of the outer loop.
already_processed(enrollment, processed) == enrollment.id \in processed

\* Mutant: a candidate is compared with the first member of the group only.
overlaps_group_first(group, other) == Conflict(group[1], other)

\* The inner "for group_member in group" loop: does other conflict with any
\* member of the current group?
overlaps_group(group, other) ==
    \E i \in 1..Len(group) : Conflict(group[i], other)

\* Mutant: groups of one record are returned too.
is_duplicate_group_any(group) == Len(group) >= 1

\* "if len(group) > 1": only groups with several records are returned.
is_duplicate_group(group) == Len(group) > 1

\* One pass of "for other in sorted_enrollments" from position i on.
RECURSIVE absorb_pass(_, _, _, _, _)
absorb_pass(sorted_enrollments, i, group, processed, changed) ==
    IF i > Len(sorted_enrollments)
    THEN [group |-> group, processed |-> processed, changed |-> changed]
    ELSE LET other == sorted_enrollments[i]
         IN  IF other.id \in processed
             THEN absorb_pass(sorted_enrollments, i + 1, group, processed, changed)
             ELSE IF overlaps_group(group, other)
             THEN absorb_pass(sorted_enrollments, i + 1, Append(group, other),
                              processed \cup {other.id}, TRUE)
             ELSE absorb_pass(sorted_enrollments, i + 1, group, processed, changed)

\* "while changed": passes are repeated until one absorbs nothing.  passes
\* counts them.
RECURSIVE absorb_all(_, _, _, _)
absorb_all(sorted_enrollments, group, processed, passes) ==
    LET r == absorb_pass(sorted_enrollments, 1, group, processed, FALSE)
    IN  IF r.changed
        THEN absorb_all(sorted_enrollments, r.group, r.processed, passes + 1)
        ELSE [group |-> r.group, processed |-> r.processed, passes |-> passes + 1]

\* The outer "for enrollment in sorted_enrollments" loop from position i on.
\* dropped lists the groups of one record, which the code builds and does
\* not return.
RECURSIVE group_loop(_, _, _, _, _)
group_loop(sorted_enrollments, i, groups, processed, dropped) ==
    IF i > Len(sorted_enrollments)
    THEN [groups |-> groups, dropped |-> dropped]
    ELSE LET enrollment == sorted_enrollments[i]
         IN  IF already_processed(enrollment, processed)
             THEN group_loop(sorted_enrollments, i + 1, groups, processed, dropped)
             ELSE LET r == absorb_all(sorted_enrollments, <<enrollment>>,
                                      processed \cup {enrollment.id}, 0)
                  IN  IF is_duplicate_group(r.group)
                      THEN group_loop(sorted_enrollments, i + 1,
                                      Append(groups, r.group), r.processed, dropped)
                      ELSE group_loop(sorted_enrollments, i + 1,
                                      groups, r.processed, Append(dropped, r.group))

\* The run of find_overlapping_groups: what it returns (groups) and what it
\* drops.
find_groups_run(enrollments) ==
    IF enrollments = <<>> THEN [groups |-> <<>>, dropped |-> <<>>]
    ELSE group_loop(sorted_by_start(enrollments), 1, <<>>, {}, <<>>)

find_overlapping_groups(enrollments) == find_groups_run(enrollments).groups

\* ------------------------------------------------ specification SpecCluster
\* One call of find_overlapping_groups on any list of at most MaxRecs
\* records of one (client, program) key, and on any list of MaxRecs + 1
\* records that last one day or are open-ended; the record at position i
\* has id i.
Ranges == [start_date : Dates, end_date : OptDates]

\* The ranges of one day and the open-ended ranges.
ShortRanges == {r \in Ranges : r.end_date \in {None, Some(r.start_date)}}

RangeLists ==
    UNION {[1..n -> Ranges] : n \in 0..MaxRecs}
    \cup [1..(MaxRecs + 1) -> ShortRanges]

AsRecords(ranges) ==
    [i \in 1..Len(ranges) |->
        [id |-> i, start_date |-> ranges[i].start_date,
         end_date |-> ranges[i].end_date]]

InitCluster ==
    /\ \E ranges \in RangeLists : args = AsRecords(ranges)
    /\ ret = <<>>
    /\ HandleIdle

CallCluster ==
    /\ ret = <<>>
    /\ ret' = <<find_groups_run(args)>>
    /\ UNCHANGED <<args, handle_vars>>

NextCluster == CallCluster

SpecCluster == InitCluster /\ [][NextCluster]_vars

\* ------------------------------------------------------ claims on SpecCluster
RECURSIVE Flatten(_)
Flatten(seqs) ==
    IF seqs = <<>> THEN <<>> ELSE Head(seqs) \o Flatten(Tail(seqs))

Occurrences(seq, x) == Cardinality({j \in 1..Len(seq) : seq[j] = x})

GroupIds(group) == {group[k].id : k \in 1..Len(group)}

\* C1: clustering produces a partition: every input record is in at most
\* one returned group and at most once in it, and the members of the
\* returned groups together with the records dropped as singletons are
\* exactly the input records, each once.
C1_Partition ==
    Returned =>
        LET members == Flatten(ret[1].groups)
            all     == members \o Flatten(ret[1].dropped)
        IN  /\ \A i \in 1..Len(args) : Occurrences(members, args[i]) <= 1
            /\ \A i \in 1..Len(args) : Occurrences(all, args[i]) = 1
            /\ Len(all) = Len(args)
            /\ \A d \in 1..Len(ret[1].dropped) : Len(ret[1].dropped[d]) = 1

\* C1 witness: a call on MaxRecs records has returned a group and dropped a
\* singleton.
C1_Witness ==
    /\ Returned
    /\ Len(args) = MaxRecs
    /\ Len(ret[1].groups) >= 1
    /\ Len(ret[1].dropped) >= 1

\* The ids linked to a set of ids by one more conflicting pair, and the
\* connected component of the conflict graph, by iteration to the fixpoint.
Neighbours(ids) ==
    ids \cup {j \in 1..Len(args) :
                \E i \in ids : Conflict(args[i], args[j]) \/ Conflict(args[j], args[i])}

RECURSIVE Component(_)
Component(ids) ==
    IF Neighbours(ids) = ids THEN ids ELSE Component(Neighbours(ids))

\* C2: every returned group is exactly one connected component of the graph
\* whose edges are the conflicting pairs: its members are linked by chains
\* of conflicting members, and no record outside it conflicts with a member.
C2_ConnectedComponents ==
    Returned =>
        \A g \in 1..Len(ret[1].groups) :
            GroupIds(ret[1].groups[g]) = Component({ret[1].groups[g][1].id})

\* C2 witness: a returned group of three records of which two do not
\* conflict directly (A - B - C).
C2_Witness ==
    /\ Returned
    /\ \E g \in 1..Len(ret[1].groups) :
          /\ Len(ret[1].groups[g]) = 3
          /\ \E a, c \in 1..3 :
                a # c /\ ~Conflict(ret[1].groups[g][a], ret[1].groups[g][c])

\* C9: singletons are dropped and only they: a record is a member of some
\* returned group iff it conflicts with at least one other input record, and
\* every returned group has two or more members.
C9_SingletonsDropped ==
    Returned =>
        /\ \A i \in 1..Len(args) :
              (\E g \in 1..Len(ret[1].groups) : args[i].id \in GroupIds(ret[1].groups[g]))
              <=> (\E j \in 1..Len(args) : j # i /\ Conflict(args[i], args[j]))
        /\ \A g \in 1..Len(ret[1].groups) : Len(ret[1].groups[g]) >= 2

\* C9 witness: of three records, two conflict and form the one returned
\* group; the third conflicts with neither and is dropped.
C9_Witness ==
    /\ Returned
    /\ Len(args) = 3
    /\ Len(ret[1].groups) = 1 /\ Len(ret[1].groups[1]) = 2
    /\ Len(ret[1].dropped) = 1
    /\ \A j \in 1..3 : j # ret[1].dropped[1][1].id
                        => ~Conflict(ret[1].dropped[1][1], args[j])

\* -------------------------------------------------- select_best_enrollment
\* Mutant: the sort without reverse=True (ascending, stable).
RECURSIVE sorted_by_created_asc(_)
sorted_by_created_asc(candidates) ==
    IF candidates = <<>> THEN <<>>
    ELSE LET n    == Len(candidates)
             e    == candidates[n]
             rest == sorted_by_created_asc(SubSeq(candidates, 1, n - 1))
             p    == Cardinality({i \in 1..Len(rest) :
                                    rest[i].created_at <= e.created_at})
         IN  SubSeq(rest, 1, p) \o <<e>> \o SubSeq(rest, p + 1, Len(rest))

\* candidates.sort(key=created_at, reverse=True): stable, descending; records
\* with equal created_at keep their relative order.
RECURSIVE sorted_by_created_desc(_)
sorted_by_created_desc(candidates) ==
    IF candidates = <<>> THEN <<>>
    ELSE LET n    == Len(candidates)
             e    == candidates[n]
             rest == sorted_by_created_desc(SubSeq(candidates, 1, n - 1))
             p    == Cardinality({i \in 1..Len(rest) :
                                    rest[i].created_at >= e.created_at})
         IN  SubSeq(rest, 1, p) \o <<e>> \o SubSeq(rest, p + 1, Len(rest))

\* The weights of completeness_score.
NotesWeight == 10
ReceivingWeight == 5
StatusWeight == 3
SubProgramWeight == 2

\* Mutant: every field that is set counts the same.
completeness_score_unweighted(enrollment) ==
      (IF enrollment.notes # "" THEN 1 ELSE 0)
    + (IF Truthy(enrollment.receiving_services_date) THEN 1 ELSE 0)
    + (IF enrollment.status # "" /\ enrollment.status # "pending" THEN 1 ELSE 0)
    + (IF Truthy(enrollment.sub_program) THEN 1 ELSE 0)

\* notes and status are strings ("" is falsy); receiving_services_date and
\* sub_program are optional.
completeness_score(enrollment) ==
      (IF enrollment.notes # "" THEN NotesWeight ELSE 0)
    + (IF Truthy(enrollment.receiving_services_date) THEN ReceivingWeight ELSE 0)
    + (IF enrollment.status # "" /\ enrollment.status # "pending"
       THEN StatusWeight ELSE 0)
    + (IF Truthy(enrollment.sub_program) THEN SubProgramWeight ELSE 0)

\* Mutant: archived records stay candidates.
prefer_non_archived_all(enrollments) == enrollments

\* Priority 1: "candidates = non_archived if non_archived else enrollments".
prefer_non_archived(enrollments) ==
    LET non_archived == SelectSeq(enrollments, LAMBDA e : ~e.is_archived)
    IN  IF non_archived # <<>> THEN non_archived ELSE enrollments

\* Mutant: the loop never replaces most_recent.
most_complete_first(candidates, i, most_recent, best_score) ==
    [most_recent |-> most_recent, best_score |-> best_score]

\* Priority 3: the loop "for candidate in candidates" from position i on.
RECURSIVE most_complete(_, _, _, _)
most_complete(candidates, i, most_recent, best_score) ==
    IF i > Len(candidates)
    THEN [most_recent |-> most_recent, best_score |-> best_score]
    ELSE LET candidate == candidates[i]
         IN  IF candidate.created_at = most_recent.created_at
                /\ completeness_score(candidate) > best_score
             THEN most_complete(candidates, i + 1, candidate,
                                completeness_score(candidate))
             ELSE most_complete(candidates, i + 1, most_recent, best_score)

\* The run of select_best_enrollment: its outcome ("return" with the record
\* returned, or "IndexError" from candidates[0] on an empty list) and the
\* caller's list after the call (candidates.sort sorts it in place when
\* candidates is the list itself).
select_run(enrollments) ==
    IF Len(enrollments) = 1
    THEN [outcome |-> "return", value |-> <<enrollments[1]>>,
          enrollments |-> enrollments]
    ELSE LET non_archived == SelectSeq(enrollments, LAMBDA e : ~e.is_archived)
             aliased    == non_archived = <<>>
             candidates == sorted_by_created_desc(prefer_non_archived(enrollments))
             after      == IF aliased THEN candidates ELSE enrollments
         IN  IF candidates = <<>>
             THEN [outcome |-> "IndexError", value |-> <<>>, enrollments |-> after]
             ELSE LET r == most_complete(candidates, 1, candidates[1],
                                         completeness_score(candidates[1]))
                      same_completeness ==
                          SelectSeq(candidates, LAMBDA e :
                              /\ e.created_at = r.most_recent.created_at
                              /\ completeness_score(e) = r.best_score)
                  IN  [outcome |-> "return",
                       value |-> IF same_completeness # <<>>
                                 THEN <<sorted_by_start(same_completeness)[1]>>
                                 ELSE <<r.most_recent>>,
                       enrollments |-> after]

select_best_enrollment(enrollments) == select_run(enrollments).value[1]

\* ------------------------------------------------- specification SpecSelect
\* One call of select_best_enrollment on any list of at most MaxGroup
\* records; the record at position i has id i.  Creation timestamps range
\* over 0..MaxInstant.
MaxGroup == 2
MaxInstant == 1

Instants == 0..MaxInstant

\* The optional fields of a record, by what they add to the score: nothing;
\* notes; a receiving-services date; a status and a sub-program; all but
\* notes; notes and a sub-program.
Profiles ==
    { [notes |-> "",   receiving_services_date |-> None,    status |-> "pending", sub_program |-> None],
      [notes |-> "ok", receiving_services_date |-> None,    status |-> "pending", sub_program |-> None],
      [notes |-> "",   receiving_services_date |-> Some(0), status |-> "",        sub_program |-> None],
      [notes |-> "",   receiving_services_date |-> None,    status |-> "active",  sub_program |-> Some(1)],
      [notes |-> "",   receiving_services_date |-> Some(0), status |-> "active",  sub_program |-> Some(1)],
      [notes |-> "ok", receiving_services_date |-> None,    status |-> "pending", sub_program |-> Some(1)] }

\* Two start dates: an earlier and a later one.
StartDates == {0, 1}

Candidates == [is_archived : BOOLEAN, created_at : Instants,
               start_date : StartDates, profile : Profiles]

\* Every combination of the optional fields (status unset, 'pending' or
\* another value).
AllProfiles ==
    [notes : {"", "ok"}, receiving_services_date : {None, Some(0)},
     status : {"", "pending", "active"}, sub_program : {None, Some(1)}]

\* Lists of up to MaxGroup records over Profiles, and the lists of one record
\* over every combination of the optional fields.
CandidateLists ==
    UNION {[1..n -> Candidates] : n \in 0..MaxGroup}
    \cup {<<c>> : c \in [is_archived : BOOLEAN, created_at : Instants,
                         start_date : StartDates, profile : AllProfiles]}

AsEnrollment(i, c) ==
    [id |-> i, is_archived |-> c.is_archived, created_at |-> c.created_at,
     start_date |-> c.start_date, end_date |-> None,
     notes |-> c.profile.notes,
     receiving_services_date |-> c.profile.receiving_services_date,
     status |-> c.profile.status, sub_program |-> c.profile.sub_program]

InitSelect ==
    /\ \E cs \in CandidateLists :
          args = [i \in 1..Len(cs) |-> AsEnrollment(i, cs[i])]
    /\ ret = <<>>
    /\ HandleIdle

CallSelect ==
    /\ ret = <<>>
    /\ ret' = <<select_run(args)>>
    /\ UNCHANGED <<args, handle_vars>>

NextSelect == CallSelect

SpecSelect == InitSelect /\ [][NextSelect]_vars

\* ------------------------------------------------------- claims on SpecSelect
Permutations(n) == {f \in [1..n -> 1..n] : \A i, j \in 1..n : f[i] = f[j] => i = j}

Reordered(enrollments, f) == [i \in 1..Len(enrollments) |-> enrollments[f[i]]]

\* C5: resolver determinism: the call returns a record with the same id for
\* every ordering of the same members, ties on archived flag, creation
\* timestamp, completeness score and start date included.
C5_OrderIndependent ==
    (Returned /\ Len(args) >= 2) =>
        \A f \in Permutations(Len(args)) :
            select_best_enrollment(Reordered(args, f)).id = ret[1].value[1].id

\* C10: tier 1 precedence: when the list holds a non-archived record, the
\* record returned is not archived.
C10_NonArchivedPreferred ==
    (Returned /\ \E i \in 1..Len(args) : ~args[i].is_archived) =>
        /\ ret[1].outcome = "return"
        /\ ~ret[1].value[1].is_archived

\* C10 witness: a non-archived record has been returned although an
\* archived member is newer, more complete and starts earlier.
C10_Witness ==
    /\ Returned
    /\ ret[1].outcome = "return"
    /\ ~ret[1].value[1].is_archived
    /\ \E i \in 1..Len(args) :
          /\ args[i].is_archived
          /\ args[i].created_at > ret[1].value[1].created_at
          /\ completeness_score(args[i]) > completeness_score(ret[1].value[1])
          /\ args[i].start_date < ret[1].value[1].start_date

\* The candidate set of the specification: the non-archived members if any
\* exist, otherwise all members.
CandidateSet(enrollments) ==
    LET all == {enrollments[i] : i \in 1..Len(enrollments)}
        live == {e \in all : ~e.is_archived}
    IN  IF live # {} THEN live ELSE all

\* C11: tier 2: the record returned has the maximum creation timestamp among
\* the candidate set; no candidate with a strictly older timestamp is
\* returned.
C11_MostRecentCreated ==
    (Returned /\ ret[1].outcome = "return") =>
        /\ ret[1].value[1] \in CandidateSet(args)
        /\ \A e \in CandidateSet(args) :
              ret[1].value[1].created_at >= e.created_at

\* C11 witness: the record returned is newer than a candidate that is more
\* complete and starts earlier.
C11_Witness ==
    /\ Returned
    /\ ret[1].outcome = "return"
    /\ \E e \in CandidateSet(args) :
          /\ e.created_at < ret[1].value[1].created_at
          /\ completeness_score(e) > completeness_score(ret[1].value[1])
          /\ e.start_date < ret[1].value[1].start_date

\* The completeness score of the specification (section 4.3, tier 3).
SpecScore(e) ==
      (IF e.notes # "" THEN 10 ELSE 0)
    + (IF e.receiving_services_date # None THEN 5 ELSE 0)
    + (IF e.status \notin {"", "pending"} THEN 3 ELSE 0)
    + (IF e.sub_program # None THEN 2 ELSE 0)

\* The candidates tied for the maximum creation timestamp.
Newest(enrollments) ==
    {e \in CandidateSet(enrollments) :
        \A o \in CandidateSet(enrollments) : e.created_at >= o.created_at}

\* C12: tier 3: the code scores every record as the specification does
\* (+10 notes, +5 receiving-services date, +3 status set and not 'pending',
\* +2 sub-program), and the record returned has the maximum score among the
\* candidates tied for the maximum creation timestamp.
C12_MostComplete ==
    (Returned /\ ret[1].outcome = "return") =>
        /\ \A i \in 1..Len(args) :
              completeness_score(args[i]) = SpecScore(args[i])
        /\ ret[1].value[1] \in Newest(args)
        /\ \A e \in Newest(args) :
              SpecScore(ret[1].value[1]) >= SpecScore(e)

\* C12 witness: the record returned is more complete than a candidate with
\* the same creation timestamp that comes before it in the list and starts
\* earlier.
C12_Witness ==
    /\ Returned
    /\ ret[1].outcome = "return"
    /\ \E e \in Newest(args) :
          /\ SpecScore(e) < SpecScore(ret[1].value[1])
          /\ e.id < ret[1].value[1].id
          /\ e.start_date < ret[1].value[1].start_date

\* Two candidates tied on archived state and creation timestamp, of which
\* exactly one, args[n], has non-empty notes; o is the position of the other.
NotesPair(n, o) ==
    /\ Returned
    /\ Len(args) = 2
    /\ {n, o} = {1, 2}
    /\ args[n].is_archived = args[o].is_archived
    /\ args[n].created_at = args[o].created_at
    /\ args[n].notes # ""
    /\ args[o].notes = ""

\* The record has a receiving-services date, a status that is set and not
\* 'pending', and a sub-program.
HasAllButNotes(e) ==
    /\ e.receiving_services_date # None
    /\ e.status \notin {"", "pending"}
    /\ e.sub_program # None

\* The record has none of the three.
HasOnlyNotes(e) ==
    /\ e.receiving_services_date = None
    /\ e.status \in {"", "pending"}
    /\ e.sub_program = None

\* C13 (as stated): of two candidates tied on archived state and creation
\* timestamp, exactly one with non-empty notes, the one with notes is
\* returned whatever the other optional fields and the start dates are.
C13_NotesKept ==
    \A n, o \in 1..2 :
        NotesPair(n, o) => ret[1].value[1].id = n

\* C13 (amended): the one with notes is returned unless it has nothing but
\* notes and the other record has all of receiving-services date, status and
\* sub-program: then both score 10, and the one with the earlier start date
\* is returned, the first of the list when the start dates are equal.
C13_NotesKeptUnlessScoresTie ==
    \A n, o \in 1..2 :
        NotesPair(n, o) =>
            IF HasOnlyNotes(args[n]) /\ HasAllButNotes(args[o])
            THEN ret[1].value[1].id =
                    IF args[1].start_date <= args[2].start_date THEN 1 ELSE 2
            ELSE ret[1].value[1].id = n

\* C13 witness: the record with notes is returned although the other record
\* comes first, starts earlier and has a receiving-services date.
C13_Witness ==
    /\ NotesPair(2, 1)
    /\ ret[1].value[1].id = 2
    /\ args[1].start_date < args[2].start_date
    /\ args[1].receiving_services_date # None

\* The candidates tied for the maximum creation timestamp and, among these,
\* for the maximum completeness score.
MostComplete(enrollments) ==
    {e \in Newest(enrollments) :
        \A o \in Newest(enrollments) : SpecScore(e) >= SpecScore(o)}

\* C14: tier 4: the record returned has the minimum start date among the
\* candidates tied for both the maximum creation timestamp and the maximum
\* completeness score.
C14_EarliestStart ==
    (Returned /\ ret[1].outcome = "return") =>
        /\ ret[1].value[1] \in MostComplete(args)
        /\ \A e \in MostComplete(args) :
              ret[1].value[1].start_date <= e.start_date

\* C14 witness: the record returned starts earlier than a fully tied
\* candidate that comes before it in the list.
C14_Witness ==
    /\ Returned
    /\ ret[1].outcome = "return"
    /\ \E e \in MostComplete(args) :
          /\ e.id < ret[1].value[1].id
          /\ e.start_date > ret[1].value[1].start_date

\* C19: the resolver has no side effects: after the call the caller's list
\* holds the same records in the same order as before, for every list, one
\* whose members are all archived included.
C19_InputUnchanged ==
    Returned => ret[1].enrollments = args

\* C19 holds whenever a member of the list is not archived: the sort then
\* works on a copy.
C19_UnchangedWithNonArchived ==
    (Returned /\ \E i \in 1..Len(args) : ~args[i].is_archived) =>
        ret[1].enrollments = args

\* ------------------------------------------- remove_duplicate_group, dry run
\* Mutant: only the empty group is turned away.
too_small_empty(group) == Len(group) < 1

\* "if len(group) <= 1: return None".
too_small(group) == Len(group) <= 1

\* The run of remove_duplicate_group(group, dry_run=True), which touches
\* nothing but its argument: None, or the result of the dry-run branch.
remove_dry_run(group) ==
    IF too_small(group)
    THEN [outcome |-> "return", result |-> None]
    ELSE LET sel  == select_run(group)
             keep == sel.value[1]
             rem  == SelectSeq(sel.enrollments, LAMBDA e : e.id # keep.id)
         IN  IF sel.outcome # "return"
             THEN [outcome |-> sel.outcome, result |-> None]
             ELSE [outcome |-> "return",
                   result |-> Some([kept_id |-> keep.id,
                                    removed_count |-> Len(rem),
                                    removed_ids |-> [i \in 1..Len(rem) |-> rem[i].id],
                                    total_duplicates |-> Len(group)])]

\* ------------------------------------------------- specification SpecRemove
\* Each of the two entry points of the resolver called once on the same
\* list, of any length from 0 to MaxGroup.
CallResolver ==
    /\ ret = <<>>
    /\ ret' = <<[select_best_enrollment |-> select_run(args),
                 remove_duplicate_group |-> remove_dry_run(args)]>>
    /\ UNCHANGED <<args, handle_vars>>

NextRemove == CallResolver

SpecRemove == InitSelect /\ [][NextRemove]_vars

MaxRows == 4
MaxFaults == 1

\* ClientProgramEnrollment.objects.filter(is_archived=False), in primary-key
\* order.
load_enrollments(rows, present) ==
    SelectSeq(rows, LAMBDA e : e.id \in present /\ ~e.is_archived)

KeyOf(enrollment) == <<enrollment.client_id, enrollment.program_id>>

\* enrollment_groups[key].append(enrollment): a dict keeps its keys in the
\* order of their first insertion.
RECURSIVE group_by_key(_, _, _)
group_by_key(enrollments, i, acc) ==
    IF i > Len(enrollments) THEN acc
    ELSE LET e == enrollments[i]
             at == {k \in 1..Len(acc) : acc[k].key = KeyOf(e)}
         IN  IF at = {}
             THEN group_by_key(enrollments, i + 1,
                      Append(acc, [key |-> KeyOf(e), enrollments |-> <<e>>]))
             ELSE LET k == CHOOSE k \in at : TRUE
                  IN  group_by_key(enrollments, i + 1,
                          [acc EXCEPT ![k].enrollments = Append(@, e)])

\* The locals of handle at the start of a run.  The statistics that are only
\* printed (groups_with_multiple, clients_status_updated, removal_details,
\* ...) and the status_updated flag of a result are left out.
NewRun(run, dry_run, force) ==
    [pc |-> "idle", run |-> run, dry_run |-> dry_run, force |-> force,
     enrollment_groups |-> <<>>, ki |-> 1,
     overlapping_groups |-> <<>>, gi |-> 1,
     total_removed |-> 0, total_kept |-> 0,
     errors |-> <<>>, all_removed_ids |-> <<>>,
     units |-> <<>>,        \* per processed group: what went in and came out
     delete_calls |-> {},   \* the ids delete() was called on in this run
     recomputed |-> {},     \* the clients update_inactive_status() ran for
     outcome |-> "none"]

\* Mutant: the gate lets every run through.
gate_refuses_never(dry_run, force) == FALSE

\* "if dry_run: ... elif not force: ... return": a run with neither option
\* ends after the warning.
gate_refuses(dry_run, force) == ~dry_run /\ ~force

\* handle up to the first loop: the --dry-run / --force gate, the query and
\* the grouping by (client, program).
Begin(dry_run, force) ==
    /\ hnd.pc \in {"idle", "done"}
    /\ hnd.run < 2
    /\ prev' = IF hnd.pc = "done"
               THEN <<[dry_run |-> hnd.dry_run, force |-> hnd.force,
                       outcome |-> hnd.outcome, units |-> hnd.units,
                       delete_calls |-> hnd.delete_calls,
                       faults |-> faults]>>
               ELSE prev
    /\ LET new == NewRun(hnd.run + 1, dry_run, force)
       IN  IF gate_refuses(dry_run, force)
           THEN hnd' = [new EXCEPT !.pc = "done", !.outcome = "refused"]
           ELSE hnd' = [new EXCEPT
                    !.pc = "keys",
                    !.enrollment_groups =
                        group_by_key(load_enrollments(table, db), 1, <<>>)]
    /\ UNCHANGED <<pure_vars, table, db, txn, rdg, faults>>

\* "for (client_id, program_id), enrollments in enrollment_groups.items()"
\* from position ki on, up to the first key that has overlapping groups: a
\* key with one enrollment or without overlapping groups is skipped
\* ("continue").
RECURSIVE key_loop(_)
key_loop(frame) ==
    IF frame.ki > Len(frame.enrollment_groups)
    THEN [frame EXCEPT !.pc = "final"]
    ELSE LET enrollments == frame.enrollment_groups[frame.ki].enrollments
             overlapping_groups == find_overlapping_groups(enrollments)
         IN  IF Len(enrollments) <= 1 \/ overlapping_groups = <<>>
             THEN key_loop([frame EXCEPT !.ki = @ + 1])
             ELSE [frame EXCEPT !.overlapping_groups = overlapping_groups,
                                !.gi = 1, !.pc = "groups"]

NextKey ==
    /\ hnd.pc = "keys"
    /\ hnd' = key_loop(hnd)
    /\ UNCHANGED <<pure_vars, table, db, txn, rdg, prev, faults>>

Ids(enrollments) == [i \in 1..Len(enrollments) |-> enrollments[i].id]

\* Mutant: the record to keep is removed with the others.
enrollments_to_remove_all(group, enrollment_to_keep) == group

\* Mutant: only the first of the other members is removed.
enrollments_to_remove_first(group, enrollment_to_keep) ==
    SubSeq(SelectSeq(group, LAMBDA e : e.id # enrollment_to_keep.id), 1, 1)

\* "[e for e in group if e.id != enrollment_to_keep.id]".
enrollments_to_remove(group, enrollment_to_keep) ==
    SelectSeq(group, LAMBDA e : e.id # enrollment_to_keep.id)

\* Mutant: the removals are applied in a dry run too.
applies_removals_always(dry_run) == TRUE

\* "if not dry_run:" of remove_duplicate_group.
applies_removals(dry_run) == ~dry_run

\* Entering "with transaction.atomic()" and remove_duplicate_group up to the
\* deletions; in a dry run, up to its return.
EnterGroup ==
    /\ hnd.pc = "groups"
    /\ LET sel   == select_run(hnd.overlapping_groups[hnd.gi])
           group == sel.enrollments
           keep  == sel.value[1]
           rem   == enrollments_to_remove(group, keep)
           frame == [group |-> group, enrollment_to_keep |-> keep,
                     enrollments_to_remove |-> rem, di |-> 1,
                     removed_count |-> 0, removed_ids |-> <<>>,
                     result |-> <<>>]
       IN  IF ~applies_removals(hnd.dry_run)
           THEN /\ rdg' = [frame EXCEPT !.result =
                        <<[kept_id |-> keep.id, removed_count |-> Len(rem),
                           removed_ids |-> Ids(rem),
                           total_duplicates |-> Len(group)]>>]
                /\ hnd' = [hnd EXCEPT !.pc = "exit"]
           ELSE /\ rdg' = frame
                /\ hnd' = [hnd EXCEPT !.pc = "deleting"]
    /\ txn' = [open |-> TRUE, deleted |-> {}, broken |-> FALSE]
    /\ UNCHANGED <<pure_vars, table, db, prev, faults>>

Deleting ==
    /\ hnd.pc = "deleting"
    /\ rdg.di <= Len(rdg.enrollments_to_remove)

\* enrollment.delete() succeeds.
DeleteOk ==
    /\ Deleting
    /\ ~txn.broken
    /\ LET enrollment_id == rdg.enrollments_to_remove[rdg.di].id
       IN  /\ txn' = [txn EXCEPT !.deleted = @ \cup {enrollment_id}]
           /\ rdg' = [rdg EXCEPT !.di = @ + 1, !.removed_count = @ + 1,
                                 !.removed_ids = Append(@, enrollment_id)]
           /\ hnd' = [hnd EXCEPT !.delete_calls = @ \cup {enrollment_id}]
    /\ UNCHANGED <<pure_vars, table, db, prev, faults>>

\* enrollment.delete() raises and "except Exception" logs it.  A database
\* error marks the enclosing atomic block for rollback (breaks); an error
\* raised before the database is touched does not.  In a block already
\* marked, every query raises.
DeleteFail(breaks) ==
    /\ Deleting
    /\ IF txn.broken
       THEN /\ breaks
            /\ UNCHANGED <<txn, faults>>
       ELSE /\ faults < MaxFaults
            /\ faults' = faults + 1
            /\ txn' = [txn EXCEPT !.broken = breaks]
    /\ rdg' = [rdg EXCEPT !.di = @ + 1]
    /\ hnd' = [hnd EXCEPT !.delete_calls =
                   @ \cup {rdg.enrollments_to_remove[rdg.di].id}]
    /\ UNCHANGED <<pure_vars, table, db, prev>>

\* "Update client status after removal" and the return of the result.
\* outcome: the recompute "returns", or the block "raises" (logged as a
\* warning).
UpdateStatus(outcome, breaks) ==
    /\ hnd.pc = "deleting"
    /\ rdg.di > Len(rdg.enrollments_to_remove)
    /\ IF txn.broken
       THEN /\ outcome = "raises" /\ breaks
            /\ UNCHANGED <<txn, faults>>
       ELSE IF outcome = "raises"
       THEN /\ faults < MaxFaults
            /\ faults' = faults + 1
            /\ txn' = [txn EXCEPT !.broken = breaks]
       ELSE /\ ~breaks
            /\ UNCHANGED <<txn, faults>>
    /\ rdg' = [rdg EXCEPT !.result =
                  <<[kept_id |-> rdg.enrollment_to_keep.id,
                     removed_count |-> rdg.removed_count,
                     removed_ids |-> rdg.removed_ids,
                     total_duplicates |-> Len(rdg.group)]>>]
    /\ hnd' = [hnd EXCEPT
                  !.pc = "exit",
                  !.recomputed = IF txn.broken THEN @
                                 ELSE @ \cup {rdg.enrollment_to_keep.client_id}]
    /\ UNCHANGED <<pure_vars, table, db, prev>>

\* The bookkeeping of handle on the result (inside the atomic block).
Bookkeep(frame, result) ==
    [frame EXCEPT
        !.total_removed = @ + result.removed_count,
        !.total_kept = @ + 1,
        !.all_removed_ids = @ \o result.removed_ids]

\* The loop "for group in overlapping_groups" moves on.
NextGroup(frame) ==
    IF frame.gi < Len(frame.overlapping_groups)
    THEN [frame EXCEPT !.gi = @ + 1, !.pc = "groups"]
    ELSE [frame EXCEPT !.ki = @ + 1, !.pc = "keys"]

\* Mutant: the exception ends the loops.
on_unit_error_abort(frame, key) ==
    [frame EXCEPT !.errors = Append(@, key), !.pc = "final"]

\* "except Exception as e": the error is recorded and the loop over the
\* groups goes on ("Continue processing other groups even if one fails").
on_unit_error(frame, key) ==
    NextGroup([frame EXCEPT !.errors = Append(@, key)])

\* Leaving the atomic block: a block marked for rollback is rolled back
\* without an exception; otherwise it commits, or the commit raises, the
\* block is rolled back and "except Exception" of handle records the error.
ExitAtomic(commit_ok) ==
    /\ hnd.pc = "exit"
    /\ LET result == rdg.result[1]
           kept   == Bookkeep(hnd, result)
           unit   == [group |-> Ids(rdg.group), kept_id |-> result.kept_id,
                      result |-> result,
                      raised |-> ~txn.broken /\ ~commit_ok]
           logged == [kept EXCEPT !.units = Append(@, unit)]
       IN  IF txn.broken
           THEN /\ commit_ok
                /\ hnd' = NextGroup(logged)
                /\ UNCHANGED <<db, faults>>
           ELSE IF commit_ok
           THEN /\ db' = db \ txn.deleted
                /\ hnd' = NextGroup(logged)
                /\ UNCHANGED faults
           ELSE /\ faults < MaxFaults
                /\ faults' = faults + 1
                /\ hnd' = on_unit_error(logged, hnd.enrollment_groups[hnd.ki].key)
                /\ UNCHANGED db
    /\ txn' = NoTxn
    /\ UNCHANGED <<pure_vars, table, rdg, prev>>

\* The final pass over the affected clients (not in a dry run) and the
\* summary.
Finish ==
    /\ hnd.pc = "final"
    /\ LET affected == {hnd.enrollment_groups[k].key[1] :
                          k \in {k \in 1..Len(hnd.enrollment_groups) :
                                   Len(hnd.enrollment_groups[k].enrollments) > 1}}
       IN  hnd' = [hnd EXCEPT
                      !.pc = "done",
                      !.recomputed = IF hnd.dry_run THEN @ ELSE @ \cup affected,
                      !.outcome = IF hnd.dry_run THEN "dry_run"
                                  ELSE IF hnd.errors # <<>>
                                  THEN "completed_with_errors"
                                  ELSE "completed_successfully"]
    /\ UNCHANGED <<pure_vars, table, db, txn, rdg, prev, faults>>

\* ------------------------------------------------------- specification Spec
\* Up to two consecutive runs of the command on any store of MaxRows
\* non-archived rows.  Ids are given in key order; a row lasts one day, the
\* first or the last; the rows with an odd id were created at instant 1,
\* the others at instant 0.
KeyPatterns ==
    {k \in [1..MaxRows -> 1..MaxRows] :
        k[1] = 1 /\ \A i \in 1..(MaxRows - 1) : k[i + 1] \in {k[i], k[i] + 1}}

HandleRanges ==
    { [start_date |-> 0, end_date |-> Some(0)],
      [start_date |-> MaxDate, end_date |-> Some(MaxDate)] }

Row(i, key, range) ==
    [id |-> i, client_id |-> key, program_id |-> 1,
     start_date |-> range.start_date, end_date |-> range.end_date,
     is_archived |-> FALSE, created_at |-> i % 2, notes |-> "",
     receiving_services_date |-> None, status |-> "pending",
     sub_program |-> None]

Init ==
    /\ \E k \in KeyPatterns : \E r \in [1..MaxRows -> HandleRanges] :
          table = [i \in 1..MaxRows |-> Row(i, k[i], r[i])]
    /\ db = 1..MaxRows
    /\ txn = NoTxn
    /\ hnd = NewRun(0, FALSE, FALSE)
    /\ rdg = NoFrame
    /\ prev = <<>>
    /\ faults = 0
    /\ args = <<>>
    /\ ret = <<>>

Next ==
    \/ \E dry_run, force \in BOOLEAN : Begin(dry_run, force)
    \/ NextKey
    \/ EnterGroup
    \/ DeleteOk
    \/ \E breaks \in BOOLEAN : DeleteFail(breaks)
    \/ \E outcome \in {"returns", "raises"} :
          \E breaks \in BOOLEAN : UpdateStatus(outcome, breaks)
    \/ \E commit_ok \in BOOLEAN : ExitAtomic(commit_ok)
    \/ Finish

Spec == Init /\ [][Next]_vars

\* ------------------------------------------------------------ claims on Spec
Without(ids, id) == SelectSeq(ids, LAMBDA x : x # id)

Members(ids) == {ids[i] : i \in 1..Len(ids)}

\* The result remove_duplicate_group has returned for the group in hand, if
\* any, and the results of the groups processed before in this run.
ReturnedResults ==
    {[group |-> hnd.units[u].group, result |-> hnd.units[u].result] :
        u \in 1..Len(hnd.units)}
    \cup (IF hnd.pc = "exit"
          THEN {[group |-> Ids(rdg.group), result |-> rdg.result[1]]}
          ELSE {})

ResultInvariant(r) ==
    /\ r.result.kept_id \in Members(r.group)
    /\ r.result.removed_ids = Without(r.group, r.result.kept_id)
    /\ r.result.total_duplicates = Len(r.group)

\* C3: ResolutionResult invariant: every result returned for a group, in a
\* dry run and in an apply run alike, has one kept_id, the id of a member;
\* removed_ids is the group's ids minus kept_id, in group order; and
\* total_duplicates is the size of the group.
C3_ResolutionResult ==
    \A r \in ReturnedResults : ResultInvariant(r)

\* What the code does satisfy of C3: the same in a dry run, and in an apply
\* run as long as no collaborator call has failed.
C3_ResultWithoutFailure ==
    (hnd.dry_run \/ faults = 0) => \A r \in ReturnedResults : ResultInvariant(r)

\* C4: atomic unit of work per group: in an apply run, once a group has been
\* processed, either every non-kept member of it has been deleted or none
\* has, also when the deletion of one member failed.
C4_AtomicPerGroup ==
    ~hnd.dry_run =>
        \A u \in 1..Len(hnd.units) :
            LET non_kept == Members(hnd.units[u].group) \ {hnd.units[u].kept_id}
            IN  non_kept \cap db = {} \/ non_kept \subseteq db

\* What the code does satisfy of C4: the same as long as no collaborator
\* call has failed.
C4_AtomicWithoutFailure ==
    (~hnd.dry_run /\ faults = 0) =>
        \A u \in 1..Len(hnd.units) :
            LET non_kept == Members(hnd.units[u].group) \ {hnd.units[u].kept_id}
            IN  non_kept \cap db = {}

\* The groups a run has to process: those of every key, in key order.
RECURSIVE GroupsToProcess(_, _)
GroupsToProcess(enrollment_groups, k) ==
    IF k > Len(enrollment_groups) THEN <<>>
    ELSE LET enrollments == enrollment_groups[k].enrollments
             groups == IF Len(enrollments) <= 1 THEN <<>>
                       ELSE find_overlapping_groups(enrollments)
         IN  [i \in 1..Len(groups) |->
                 [key |-> enrollment_groups[k].key, group |-> Ids(groups[i])]]
             \o GroupsToProcess(enrollment_groups, k + 1)

FailedDeletes ==
    hnd.delete_calls \ UNION {Members(hnd.units[u].result.removed_ids) :
                                 u \in 1..Len(hnd.units)}

\* C16: no persistence failure is swallowed: a run in which a delete()
\* raised has an entry for it in the errors of handle and ends as completed
\* with errors, never as completed successfully.
C16_FailedDeleteReported ==
    (hnd.pc = "done" /\ FailedDeletes # {}) =>
        /\ hnd.errors # <<>>
        /\ hnd.outcome = "completed_with_errors"

\* The ids of the rows the run in hand has loaded.
LoadedIds ==
    UNION {Members(Ids(hnd.enrollment_groups[k].enrollments)) :
              k \in 1..Len(hnd.enrollment_groups)}

\* What a unit of work went into and came out with.
Outcomes(units) ==
    [u \in 1..Len(units) |->
        [group |-> units[u].group, kept_id |-> units[u].result.kept_id,
         removed_ids |-> units[u].result.removed_ids,
         total_duplicates |-> units[u].result.total_duplicates]]

\* C17: dry-run invariant: a dry run calls delete() on no record, leaves
\* every loaded row in the store and recomputes no client status; and the
\* results of a dry run that follows a dry run are, group by group, those of
\* the first (kept_id, removed_ids, total_duplicates).
C17_DryRunInvariant ==
    (hnd.run >= 1 /\ hnd.dry_run) =>
        /\ hnd.delete_calls = {}
        /\ txn.deleted = {}
        /\ db = LoadedIds
        /\ hnd.recomputed = {}
        /\ (prev # <<>> /\ prev[1].dry_run) =>
              /\ Len(hnd.units) <= Len(prev[1].units)
              /\ \A u \in 1..Len(hnd.units) :
                    Outcomes(hnd.units)[u] = Outcomes(prev[1].units)[u]
              /\ hnd.pc = "done" => Len(hnd.units) = Len(prev[1].units)

\* C17 witness: a second dry run has ended after a first on a store with
\* duplicates to remove.
C17_Witness ==
    /\ hnd.pc = "done" /\ hnd.dry_run
    /\ prev # <<>> /\ prev[1].dry_run
    /\ \E u \in 1..Len(hnd.units) : hnd.units[u].result.removed_ids # <<>>

\* C18: force gate: a run with neither --dry-run nor --force has ended
\* after the warning with nothing loaded, no delete() call and no status
\* recompute; delete() is only called in runs with --force and without
\* --dry-run.
C18_ForceGate ==
    /\ (hnd.run >= 1 /\ ~hnd.dry_run /\ ~hnd.force) =>
          /\ hnd.pc = "done" /\ hnd.outcome = "refused"
          /\ hnd.enrollment_groups = <<>> /\ hnd.units = <<>>
          /\ hnd.delete_calls = {} /\ txn = NoTxn
          /\ hnd.recomputed = {}
    /\ (hnd.delete_calls # {} \/ txn.deleted # {}) =>
          hnd.force /\ ~hnd.dry_run

\* C18 witness: a run with neither option has ended on a store that has
\* duplicates to remove.
C18_Witness ==
    /\ hnd.run >= 1 /\ ~hnd.dry_run /\ ~hnd.force
    /\ hnd.pc = "done"
    /\ GroupsToProcess(group_by_key(load_enrollments(table, db), 1, <<>>), 1) # <<>>

\* With C9, in the command: delete() is only ever called on a row that
\* conflicts with another loaded row of its (client, program) key.
DeletedOnlyIfConflicting ==
    \A id \in hnd.delete_calls :
        \E k \in 1..Len(hnd.enrollment_groups) :
            LET es == hnd.enrollment_groups[k].enrollments
            IN  \E i, j \in 1..Len(es) :
                    es[i].id = id /\ i # j /\ Conflict(es[i], es[j])

\* No two stored rows of the same (client, program) key conflict.
NoConflictLeft ==
    \A i, j \in db :
        (i # j /\ KeyOf(table[i]) = KeyOf(table[j])) => ~Conflict(table[i], table[j])

\* The ids on which delete() was called and raised, of a run that has ended.
FailedDeletesOf(run) ==
    run.delete_calls \ UNION {Members(run.units[u].result.removed_ids) :
                                 u \in 1..Len(run.units)}

\* The run is an apply run (--force, no --dry-run).
Applies(run) == run.force /\ ~run.dry_run

\* The collaborator calls that failed in the run in hand.
RunFaults == faults - (IF prev # <<>> THEN prev[1].faults ELSE 0)

\* The run in hand, which has passed the gate, finds no group and calls
\* delete() on nothing.
FindsNothing ==
    /\ hnd.outcome # "refused"
    /\ GroupsToProcess(hnd.enrollment_groups, 1) = <<>>
    /\ hnd.units = <<>>
    /\ hnd.delete_calls = {}
    /\ txn.deleted = {}

KeptIds ==
    {hnd.units[u].kept_id : u \in 1..Len(hnd.units)}
    \cup (IF hnd.pc \in {"deleting", "exit"}
          THEN {rdg.enrollment_to_keep.id} ELSE {})

\* C24: the kept record is never deleted: delete() is called on no record
\* chosen as kept, by its own group's processing or another's, whatever
\* calls fail; the kept records stay in the store, and every key of a
\* loaded row still has a row in the store.
C24_KeptNeverDeleted ==
    /\ KeptIds \cap (hnd.delete_calls \cup txn.deleted) = {}
    /\ KeptIds \subseteq db
    /\ \A k \in 1..Len(hnd.enrollment_groups) :
          Members(Ids(hnd.enrollment_groups[k].enrollments)) \cap db # {}

\* C24 witness: an apply run has ended in which, for a group of three, one
\* delete() raised and one took effect, and the kept record is in the store.
C24_Witness ==
    /\ hnd.pc = "done" /\ Applies(hnd)
    /\ \E u \in 1..Len(hnd.units) :
          /\ Len(hnd.units[u].group) = 3
          /\ Len(hnd.units[u].result.removed_ids) = 1
          /\ Members(hnd.units[u].result.removed_ids) \cap db = {}
          /\ hnd.units[u].kept_id \in db

\* ---------------------------------------------- further claims on SpecCluster
\* The ids of the groups, group by group, in the order returned.
GroupsAsIds(groups) ==
    [g \in 1..Len(groups) |-> [k \in 1..Len(groups[g]) |-> groups[g][k].id]]

\* C21: clustering is stable under input reordering: every ordering of the
\* same records gives the same sequence of groups, each with its members in
\* the same order.
C21_OrderIndependent ==
    Returned =>
        \A f \in Permutations(Len(args)) :
            GroupsAsIds(find_overlapping_groups(Reordered(args, f)))
                = GroupsAsIds(ret[1].groups)

\* What the code does satisfy of C21: the same when no two records have the
\* same start date.
C21_StableWithDistinctStarts ==
    (Returned /\ \A i, j \in 1..Len(args) :
                    i # j => args[i].start_date # args[j].start_date) =>
        \A f \in Permutations(Len(args)) :
            GroupsAsIds(find_overlapping_groups(Reordered(args, f)))
                = GroupsAsIds(ret[1].groups)

\* The members of a group are in ascending order of start date.
Ascending(group) ==
    \A k \in 1..(Len(group) - 1) : group[k].start_date <= group[k + 1].start_date

\* The earliest start date of a group.
EarliestStart(group) ==
    CHOOSE d \in {group[k].start_date : k \in 1..Len(group)} :
        \A k \in 1..Len(group) : d <= group[k].start_date

\* C22: in every returned group the members are in ascending order of start
\* date, a member absorbed in a later pass included, and the groups are in
\* ascending order of their earliest start date.
C22_SortedOutput ==
    Returned =>
        /\ \A g \in 1..Len(ret[1].groups) : Ascending(ret[1].groups[g])
        /\ \A g \in 1..(Len(ret[1].groups) - 1) :
              EarliestStart(ret[1].groups[g]) <= EarliestStart(ret[1].groups[g + 1])

\* What the code does satisfy of C22: the first member of a group has the
\* group's earliest start date, and the groups are in ascending order of it.
C22_FirstMemberEarliest ==
    Returned =>
        /\ \A g \in 1..Len(ret[1].groups) :
              ret[1].groups[g][1].start_date = EarliestStart(ret[1].groups[g])
        /\ \A g \in 1..(Len(ret[1].groups) - 1) :
              EarliestStart(ret[1].groups[g]) <= EarliestStart(ret[1].groups[g + 1])

\* ------------------------------------------------ list_multiple_enrollments
\* ranges_overlap_or_adjacent of the listing command.
list_ranges_overlap_or_adjacent(start1, end1, start2, end2) ==
    IF end1 = None /\ end2 = None THEN TRUE
    ELSE IF end1 = None
        THEN start2 >= start1 \/ (Truthy(end2) /\ end2[1] >= start1)
    ELSE IF end2 = None
        THEN start1 >= start2 \/ (Truthy(end1) /\ end1[1] >= start2)
    ELSE LET overlap  == start1 <= end2[1] /\ start2 <= end1[1]
             adjacent == \/ (Truthy(end1) /\ end1[1] + 1 = start2)
                         \/ (Truthy(end2) /\ end2[1] + 1 = start1)
         IN  overlap \/ adjacent

\* "for e2 in enrollments[i+1:]" for the record e1 at position i: the pairs
\* appended, in order.
pairs_of(enrollments, i) ==
    LET e1 == enrollments[i]
        hits == SelectSeq(SubSeq(enrollments, i + 1, Len(enrollments)),
                    LAMBDA e2 : list_ranges_overlap_or_adjacent(
                                    e1.start_date, e1.end_date,
                                    e2.start_date, e2.end_date))
    IN  [k \in 1..Len(hits) |-> <<e1, hits[k]>>]

\* "for i, e1 in enumerate(enrollments)" from position i on.
RECURSIVE overlapping_pairs_from(_, _)
overlapping_pairs_from(enrollments, i) ==
    IF i > Len(enrollments) THEN <<>>
    ELSE pairs_of(enrollments, i) \o overlapping_pairs_from(enrollments, i + 1)

check_enrollments_overlap(enrollments) ==
    IF Len(enrollments) < 2
    THEN [has_overlap |-> FALSE, overlapping_pairs |-> <<>>]
    ELSE LET overlapping_pairs == overlapping_pairs_from(enrollments, 1)
         IN  [has_overlap |-> Len(overlapping_pairs) > 0,
              overlapping_pairs |-> overlapping_pairs]

\* ------------------------------------------------ specification SpecListing
\* check_enrollments_overlap of the listing command and
\* find_overlapping_groups of the removal command, each called once on the
\* same list of records of one key.
CallListing ==
    /\ ret = <<>>
    /\ ret' = <<[check_enrollments_overlap |-> check_enrollments_overlap(args),
                 find_overlapping_groups |-> find_overlapping_groups(args)]>>
    /\ UNCHANGED <<args, handle_vars>>

NextListing == CallListing

SpecListing == InitCluster /\ [][NextListing]_vars

\* The unordered pairs of records for which the predicate of the removal
\* command holds.
ConflictingPairs ==
    {p \in SUBSET (1..Len(args)) :
        /\ Cardinality(p) = 2
        /\ \E i, j \in p : i # j /\ Conflict(args[i], args[j])}

\* C25: the listing and the removal command agree: has_overlap is true iff
\* find_overlapping_groups returns at least one group, and the number of
\* overlapping pairs reported is the number of unordered pairs of records
\* for which the predicate holds.
C25_ListingAgrees ==
    Returned =>
        /\ ret[1].check_enrollments_overlap.has_overlap
              <=> Len(ret[1].find_overlapping_groups) >= 1
        /\ Len(ret[1].check_enrollments_overlap.overlapping_pairs)
              = Cardinality(ConflictingPairs)

\* C25 witness: two pairs are reported for three records of which the first
\* and the last do not conflict, and one group of three is returned.
C25_Witness ==
    /\ Returned
    /\ Len(args) = 3
    /\ ~Conflict(args[1], args[3])
    /\ Len(ret[1].check_enrollments_overlap.overlapping_pairs) = 2
    /\ Len(ret[1].find_overlapping_groups) = 1
    /\ Len(ret[1].find_overlapping_groups[1]) = 3

====
